---- MODULE Spec2Model ----
(***************************************************************************)
(* The newsletter subscribe endpoint (api/subscribe handler): a request    *)
(* handler that validates a sign-up request, makes one outbound call to    *)
(* the list provider and maps the provider's reply to a JSON response.     *)
(*                                                                         *)
(* JavaScript strings that the code inspects character by character (the   *)
(* email) are sequences of one-character strings.  Other strings (error    *)
(* messages, environment values, provider titles) are TLA+ strings, and    *)
(* the JavaScript value undefined is the sentinel Undefined among them.    *)
(***************************************************************************)
EXTENDS Integers, Sequences, FiniteSets, TLC

VARIABLES env, inv, members

vars == <<env, inv, members>>

\* ------------------------------------------------------------------ bounds
\* Longest email string enumerated (the shortest matching one has 5 chars).
MaxLen == 5
\* Number of invocations in the concurrent and the successive specifications.
NInv == 2

\* ------------------------------------------------------- JavaScript values
Undefined == "<undefined>"

\* Characters of the enumerated emails: an ordinary character, the two
\* characters the pattern names, and a whitespace character.
Alphabet == {"a", "@", ".", " "}

\* The characters JavaScript's \s class matches (those that can occur here).
WhiteSpace == {" ", "\t", "\n", "\r"}

Strs(n) == UNION {[1..k -> Alphabet] : k \in 0..n}

JsUndefined == [t |-> "undefined", s |-> <<>>]
JsNull == [t |-> "object", s |-> <<"n", "u", "l", "l">>]
JsString(s) == [t |-> "string", s |-> s]

\* Values a request body can carry in its email field that are not strings:
\* null, numbers, booleans, an object, an array (typeof gives t).
NonStringValues ==
    { JsNull,
      [t |-> "number", s |-> <<"0">>],
      [t |-> "number", s |-> <<"7">>],
      [t |-> "boolean", s |-> <<"f">>],
      [t |-> "boolean", s |-> <<"t">>],
      [t |-> "object", s |-> <<"{", "}">>],
      [t |-> "object", s |-> <<"[", "]">>] }

\* typeof v
TypeOf(v) == v.t

\* !v  (JavaScript falsiness: undefined, null, 0, false, "")
Falsy(v) ==
    \/ v = JsUndefined
    \/ v = JsNull
    \/ v.t = "number" /\ v.s = <<"0">>
    \/ v.t = "boolean" /\ v.s = <<"f">>
    \/ v.t = "string" /\ v.s = <<>>

\* Falsiness of a plain string value or undefined (the || chains).
FalsyStr(x) == x \in {Undefined, ""}

\* ---------------------------------------------------------------- requests
\* req.body: absent (undefined), JSON null, a primitive that is not an
\* object (a string body), or an object with or without an email field.
BodyUndefined == [kind |-> "undefined", email |-> JsUndefined]
BodyNull == [kind |-> "null", email |-> JsUndefined]
BodyPrimitive == [kind |-> "primitive", email |-> JsUndefined]
BodyObject(v) == [kind |-> "object", email |-> v]

Bodies(n) ==
    {BodyUndefined, BodyNull, BodyPrimitive, BodyObject(JsUndefined)}
    \cup {BodyObject(v) : v \in NonStringValues}
    \cup {BodyObject(JsString(s)) : s \in Strs(n)}

ValidEmail == <<"a", "@", "a", ".", "a">>

\* A few bodies of every kind, for requests whose body is never read and for
\* the specifications with several invocations.
SmallBodies ==
    { BodyUndefined, BodyObject(JsUndefined), BodyObject(JsNull),
      BodyObject(JsString(<<>>)),
      BodyObject(JsString(<<"a", "@", "a">>)),
      BodyObject(JsString(ValidEmail)),
      BodyObject(JsString(<<".", "@", "a", ".", "a">>)) }

OtherMethods == {"GET", "PUT", "post"}

Requests ==
    {[method |-> "POST", body |-> b] : b \in Bodies(MaxLen)}
    \cup {[method |-> m, body |-> b] : m \in OtherMethods, b \in SmallBodies}

SmallRequests ==
    {[method |-> "POST", body |-> b] : b \in SmallBodies}
    \cup {[method |-> "GET", body |-> BodyObject(JsString(ValidEmail))]}

NoRequest == [method |-> Undefined, body |-> BodyUndefined]

\* ------------------------------------------------------------- environment
\* process.env: each variable is unset, empty or set.
Envs ==
    [ MAILCHIMP_API_KEY : {Undefined, "", "key-us1"},
      MAILCHIMP_AUDIENCE_ID : {Undefined, "", "list1"},
      MAILCHIMP_SERVER : {Undefined, "", "us1"},
      NODE_ENV : {Undefined, "development", "production"} ]

\* ------------------------------------------------------------ EMAIL_REGEX
\* [^\s@]
InClassAnyNonSpace(c) == c \notin WhiteSpace

InClass(c) == c \notin WhiteSpace /\ c # "@"

\* /^[^\s@]+@[^\s@]+\.[^\s@]+$/ as the sequence of its items.
EMAIL_REGEX ==
    << [kind |-> "class+", ch |-> ""],
       [kind |-> "lit", ch |-> "@"],
       [kind |-> "class+", ch |-> ""],
       [kind |-> "lit", ch |-> "."],
       [kind |-> "class+", ch |-> ""] >>

\* Backtracking match of items p.. of re against s from position k; the
\* pattern's trailing $ requires the whole string to be consumed.
RECURSIVE MatchFrom(_, _, _, _)
MatchFrom(re, s, p, k) ==
    IF p > Len(re) THEN k = Len(s) + 1
    ELSE IF re[p].kind = "lit"
         THEN k <= Len(s) /\ s[k] = re[p].ch /\ MatchFrom(re, s, p + 1, k + 1)
         ELSE \E n \in 1..(Len(s) - k + 1) :
                 /\ \A m \in k..(k + n - 1) : InClass(s[m])
                 /\ MatchFrom(re, s, p + 1, k + n)

\* EMAIL_REGEX.test(s): the leading ^ anchors the match at the first character.
RegexTest(s) == MatchFrom(EMAIL_REGEX, s, 1, 1)

\* ------------------------------------------------------------ the handler
ErrMethod == "Method not allowed"
ErrRequired == "Email is required"
ErrInvalid == "Please enter a valid email address"
ErrConfig == "Newsletter service is not configured"
ErrExists == "You are already subscribed!"
ErrGeneric == "Failed to subscribe. Please try again."
MsgThanks == "Thanks for subscribing!"

\* res.status(n).json(obj): JSON.stringify leaves out the properties whose
\* value is undefined.
Json(obj) == [k \in {f \in DOMAIN obj : obj[f] # Undefined} |-> obj[k]]

Respond(status, obj) == [kind |-> "respond", status |-> status, body |-> Json(obj)]
Throw(err) == [kind |-> "throw", error |-> err]

\* req.method !== 'POST'
MethodRejectedAnyCase(method) == method \notin {"POST", "post"}

MethodRejected(method) == method # "POST"

\* const { email } = req.body: destructuring undefined or null throws.
DestructureThrows(body) == body.kind \in {"undefined", "null"}

EmailOf(body) == IF body.kind = "object" THEN body.email ELSE JsUndefined

\* !email || typeof email !== 'string'
EmailMissing(email) == Falsy(email) \/ TypeOf(email) # "string"

\* !API_KEY || !AUDIENCE_ID || !SERVER
NotConfiguredKeyOnly(e) == FalsyStr(e.MAILCHIMP_API_KEY)

NotConfigured(e) ==
    \/ FalsyStr(e.MAILCHIMP_API_KEY)
    \/ FalsyStr(e.MAILCHIMP_AUDIENCE_ID)
    \/ FalsyStr(e.MAILCHIMP_SERVER)

\* Buffer.from(x).toString('base64'), kept abstract: an injective encoding.
Base64(x) == <<"base64", x>>

\* The fetch(...) arguments.
OutboundCallSwapped(e, email) ==
    [ method |-> "POST",
      url |-> <<"https://", e.MAILCHIMP_AUDIENCE_ID, ".api.mailchimp.com/3.0/lists/",
                e.MAILCHIMP_SERVER, "/members">>,
      contentType |-> "application/json",
      authorization |-> <<"Basic ", Base64(<<"anystring:", e.MAILCHIMP_API_KEY>>)>>,
      body |-> [email_address |-> email, status |-> "subscribed"] ]

OutboundCall(e, email) ==
    [ method |-> "POST",
      url |-> <<"https://", e.MAILCHIMP_SERVER, ".api.mailchimp.com/3.0/lists/",
                e.MAILCHIMP_AUDIENCE_ID, "/members">>,
      contentType |-> "application/json",
      authorization |-> <<"Basic ", Base64(<<"anystring:", e.MAILCHIMP_API_KEY>>)>>,
      body |-> [email_address |-> email, status |-> "subscribed"] ]

\* The handler from its entry to the fetch call: the checks in order, each
\* returning the first response that applies.
HandlerEntry(req, e) ==
    IF MethodRejected(req.method)
    THEN [out |-> Respond(405, [error |-> ErrMethod]), bodyRead |-> FALSE]
    ELSE IF DestructureThrows(req.body)
    THEN [out |-> Throw("TypeError: Cannot destructure property 'email'"),
          bodyRead |-> TRUE]
    ELSE LET email == EmailOf(req.body) IN
         [ bodyRead |-> TRUE,
           out |->
             IF EmailMissing(email) THEN Respond(400, [error |-> ErrRequired])
             ELSE IF ~RegexTest(email.s) THEN Respond(400, [error |-> ErrInvalid])
             ELSE IF NotConfigured(e) THEN Respond(500, [error |-> ErrConfig])
             ELSE [kind |-> "fetch", call |-> OutboundCall(e, email.s)] ]

\* The catch block.
CatchResponseAlwaysDebug(e, err) ==
    Respond(500, [error |-> ErrGeneric, debug |-> err])

CatchResponse(e, err) ==
    Respond(500, [ error |-> ErrGeneric,
                   debug |-> IF e.NODE_ENV = "development" THEN err ELSE Undefined ])

\* data.title, data.detail: a property of null throws, a property a value does
\* not have is undefined.
PropThrows(data) == data.kind = "null"

\* a || b || c
OrElse(a, b, c) == IF ~FalsyStr(a) THEN a ELSE IF ~FalsyStr(b) THEN b ELSE c

\* The handler after response.json() has resolved with data.
MapReplyDetailFirst(ok, data) ==
    IF ok THEN Respond(200, [message |-> MsgThanks])
    ELSE IF PropThrows(data) THEN Throw("TypeError: Cannot read properties of null")
    ELSE IF ~FalsyStr(data.detail) THEN Respond(500, [error |-> data.detail])
    ELSE IF data.title = "Member Exists" THEN Respond(400, [error |-> ErrExists])
    ELSE IF data.title = "Invalid Resource" THEN Respond(400, [error |-> ErrInvalid])
    ELSE Respond(500, [error |-> OrElse(data.detail, data.title, ErrGeneric)])

MapReplyExistsIsSuccess(ok, data) ==
    IF ok THEN Respond(200, [message |-> MsgThanks])
    ELSE IF PropThrows(data) THEN Throw("TypeError: Cannot read properties of null")
    ELSE IF data.title = "Member Exists" THEN Respond(200, [message |-> MsgThanks])
    ELSE IF data.title = "Invalid Resource" THEN Respond(400, [error |-> ErrInvalid])
    ELSE Respond(500, [error |-> OrElse(data.detail, data.title, ErrGeneric)])

MapReplyOkIgnored(ok, data) ==
    IF PropThrows(data) THEN Throw("TypeError: Cannot read properties of null")
    ELSE IF data.title = "Member Exists" THEN Respond(400, [error |-> ErrExists])
    ELSE IF data.title = "Invalid Resource" THEN Respond(400, [error |-> ErrInvalid])
    ELSE IF ok THEN Respond(200, [message |-> MsgThanks])
    ELSE Respond(500, [error |-> OrElse(data.detail, data.title, ErrGeneric)])

MapReply(ok, data) ==
    IF ok THEN Respond(200, [message |-> MsgThanks])
    ELSE IF PropThrows(data) THEN Throw("TypeError: Cannot read properties of null")
    ELSE IF data.title = "Member Exists" THEN Respond(400, [error |-> ErrExists])
    ELSE IF data.title = "Invalid Resource" THEN Respond(400, [error |-> ErrInvalid])
    ELSE Respond(500, [error |-> OrElse(data.detail, data.title, ErrGeneric)])

\* ------------------------------------------------------- provider replies
\* What response.json() parses: a JSON reply is null, an object with or
\* without title and detail, or a value without properties; any other reply
\* text is not JSON.
NotJson == [json |-> FALSE, kind |-> "text", title |-> Undefined, detail |-> Undefined]
JsonNull == [json |-> TRUE, kind |-> "null", title |-> Undefined, detail |-> Undefined]
JsonPrimitive ==
    [json |-> TRUE, kind |-> "primitive", title |-> Undefined, detail |-> Undefined]
JsonObject(title, detail) ==
    [json |-> TRUE, kind |-> "object", title |-> title, detail |-> detail]

Titles == {Undefined, "", "Member Exists", "Invalid Resource", "Some Other"}
Details == {Undefined, "", "X"}

RawBodies ==
    {NotJson, JsonNull, JsonPrimitive}
    \cup {JsonObject(t, d) : t \in Titles, d \in Details}

NoOutcome == [kind |-> "none", ok |-> FALSE, raw |-> NotJson]
Rejected == [kind |-> "rejected", ok |-> FALSE, raw |-> NotJson]
Response(ok, raw) == [kind |-> "response", ok |-> ok, raw |-> raw]

\* Every way the awaited fetch can settle.
Outcomes == {Rejected} \cup {Response(ok, raw) : ok \in BOOLEAN, raw \in RawBodies}

SmallOutcomes ==
    { Rejected, Response(TRUE, JsonObject(Undefined, Undefined)),
      Response(FALSE, JsonObject("Member Exists", "X")),
      Response(FALSE, NotJson) }

\* ------------------------------------------------------------------ state
\* env      process.env, fixed when the process starts
\* inv[i]   invocation i of the handler: where it is suspended (pc), its
\*          request, whether req.body was read, the outbound calls it made,
\*          the responses it sent, the exception that escaped it, and how
\*          its fetch settled
\* members  the provider's list (the stub provider of SpecIdem)
Idle ==
    [ pc |-> "idle", req |-> NoRequest, bodyRead |-> FALSE, calls |-> <<>>,
      sent |-> <<>>, thrown |-> Undefined, fetched |-> NoOutcome ]

InitOn(ids) ==
    /\ env \in Envs
    /\ inv = [i \in ids |-> Idle]
    /\ members = <<>>

\* The handler ends: with a response sent, or with an exception that escapes.
Finish(st, out) ==
    IF out.kind = "respond"
    THEN [st EXCEPT !.pc = "done",
                    !.sent = Append(@, [status |-> out.status, body |-> out.body])]
    ELSE [st EXCEPT !.pc = "done", !.thrown = out.error]

\* Inside try: what is thrown is caught and answered by the catch block.
FinishInTry(st, out) ==
    IF out.kind = "throw" THEN Finish(st, CatchResponse(env, out.error))
    ELSE Finish(st, out)

\* The platform calls handler(req, res); it runs up to its first await.
\* The request is any of reqs.
Invoke(i, reqs) ==
    /\ inv[i].pc = "idle"
    /\ \E r \in reqs :
         LET h == HandlerEntry(r, env)
             st == [inv[i] EXCEPT !.req = r, !.bodyRead = h.bodyRead]
         IN  inv' = [inv EXCEPT ![i] =
                       IF h.out.kind = "fetch"
                       THEN [st EXCEPT !.pc = "awaitFetch",
                                       !.calls = Append(@, h.out.call)]
                       ELSE Finish(st, h.out)]
    /\ UNCHANGED <<env, members>>

\* await fetch(...) settles: rejected (caught), or resolved with a response,
\* and the handler suspends again at await response.json().
\* The outcome is any of outs.
FetchSettles(i, outs) ==
    /\ inv[i].pc = "awaitFetch"
    /\ \E o \in outs :
         LET st == [inv[i] EXCEPT !.fetched = o]
         IN  inv' = [inv EXCEPT ![i] =
                       IF o.kind = "rejected"
                       THEN FinishInTry(st, Throw("TypeError: fetch failed"))
                       ELSE [st EXCEPT !.pc = "awaitJson"]]
    /\ UNCHANGED <<env, members>>

\* await response.json() settles: rejected when the reply is not JSON,
\* else the handler maps (response.ok, data) to its response.
JsonSettles(i) ==
    /\ inv[i].pc = "awaitJson"
    /\ LET f == inv[i].fetched
       IN  inv' = [inv EXCEPT ![i] =
                     IF ~f.raw.json
                     THEN FinishInTry(@, Throw("SyntaxError: Unexpected token"))
                     ELSE FinishInTry(@, MapReply(f.ok, f.raw))]
    /\ UNCHANGED <<env, members>>

\* The stub provider: it accepts an address that is not on its list and
\* reports "Member Exists" for one that is.
ProviderReply(i) ==
    /\ inv[i].pc = "awaitFetch"
    /\ LET call == inv[i].calls[Len(inv[i].calls)]
           addr == call.body.email_address
           onList == \E k \in 1..Len(members) : members[k] = addr
           o == IF onList
                THEN Response(FALSE, JsonObject("Member Exists", "X"))
                ELSE Response(TRUE, JsonObject(Undefined, Undefined))
       IN  /\ members' = IF onList THEN members ELSE Append(members, addr)
           /\ inv' = [inv EXCEPT ![i] = [@ EXCEPT !.fetched = o, !.pc = "awaitJson"]]
    /\ UNCHANGED env

\* One invocation, any request, any provider behaviour.
Init == InitOn({1})

Next ==
    \/ Invoke(1, Requests)
    \/ FetchSettles(1, Outcomes)
    \/ JsonSettles(1)

Spec == Init /\ [][Next]_vars

\* NInv invocations interleaved at their awaits.
InitConc == InitOn(1..NInv)

NextConc ==
    \E i \in 1..NInv :
        \/ Invoke(i, SmallRequests)
        \/ FetchSettles(i, SmallOutcomes)
        \/ JsonSettles(i)

SpecConc == InitConc /\ [][NextConc]_vars

\* NInv successive invocations against the stub provider.
InitIdem == InitOn(1..NInv)

NextIdem ==
    \E i \in 1..NInv :
        \/ /\ \A j \in 1..(i - 1) : inv[j].pc = "done"
           /\ Invoke(i, SmallRequests)
        \/ ProviderReply(i)
        \/ JsonSettles(i)

SpecIdem == InitIdem /\ [][NextIdem]_vars

\* ============================================================ properties
Ids == DOMAIN inv

Started(i) == inv[i].pc # "idle"
Done(i) == inv[i].pc = "done"

\* Invocation i has ended with exactly the response (status, body) and no
\* exception.
Answered(i, status, body) ==
    /\ Done(i)
    /\ inv[i].sent = <<[status |-> status, body |-> body]>>
    /\ inv[i].thrown = Undefined

NoCall(i) == inv[i].calls = <<>>

IsPost(i) == inv[i].req.method = "POST"

\* The request of i carries a string in its email field.
HasStringEmail(i) ==
    inv[i].req.body.kind = "object" /\ inv[i].req.body.email.t = "string"

EmailStr(i) == inv[i].req.body.email.s

\* local@domain.tld: one '@' at position a, a '.' at position d after it,
\* something before, between and after them, and apart from that '@' no
\* '@' and no whitespace anywhere.
MatchesShape(s) ==
    \E a \in 1..Len(s), d \in 1..Len(s) :
        /\ s[a] = "@" /\ s[d] = "."
        /\ 1 < a /\ a + 1 < d /\ d < Len(s)
        /\ \A k \in 1..Len(s) : k # a => s[k] \notin {" ", "\t", "\n", "\r", "@"}

Set(x) == x \notin {Undefined, ""}

Configured ==
    /\ Set(env.MAILCHIMP_API_KEY)
    /\ Set(env.MAILCHIMP_AUDIENCE_ID)
    /\ Set(env.MAILCHIMP_SERVER)

\* C1: every invocation that has ended has sent exactly one response, with
\* status 200, 400, 405 or 500, and no exception has escaped it; at no time
\* has an invocation sent more than one response.
C1_OneResponse ==
    \A i \in Ids :
        /\ Len(inv[i].sent) <= 1
        /\ Done(i) =>
             /\ Len(inv[i].sent) = 1
             /\ inv[i].sent[1].status \in {200, 400, 405, 500}
             /\ inv[i].thrown = Undefined

\* C2: a POST whose body has no email field (an absent or null body has
\* none) or a non-string email is answered 400 "Email is required", without
\* an outbound call.
C2_EmailRequired ==
    \A i \in Ids :
        (Done(i) /\ IsPost(i) /\ ~HasStringEmail(i))
            => Answered(i, 400, [error |-> ErrRequired]) /\ NoCall(i)

\* C3 as stated: a POST whose email is a string of any length that does not
\* match the shape is answered 400 "Please enter a valid email address"
\* without an outbound call, and a string that matches passes the check (the
\* handler goes on to the configuration check).
C3_AnyString ==
    \A i \in Ids :
        (Started(i) /\ IsPost(i) /\ HasStringEmail(i)) =>
            IF MatchesShape(EmailStr(i))
            THEN Len(inv[i].calls) = 1 \/ Answered(i, 500, [error |-> ErrConfig])
            ELSE Answered(i, 400, [error |-> ErrInvalid]) /\ NoCall(i)

\* C3 amended: the same for every non-empty string; the empty string is
\* answered 400 "Email is required", without an outbound call.
C3_NonEmptyString ==
    \A i \in Ids :
        (Started(i) /\ IsPost(i) /\ HasStringEmail(i)) =>
            IF MatchesShape(EmailStr(i))
            THEN Len(inv[i].calls) = 1 \/ Answered(i, 500, [error |-> ErrConfig])
            ELSE IF EmailStr(i) = <<>>
            THEN Answered(i, 400, [error |-> ErrRequired]) /\ NoCall(i)
            ELSE Answered(i, 400, [error |-> ErrInvalid]) /\ NoCall(i)

\* A POST with the email "a@a" (no top-level part) was answered 400.
C3_Witness ==
    \E i \in Ids :
        /\ IsPost(i) /\ HasStringEmail(i)
        /\ EmailStr(i) = <<"a", "@", "a">>
        /\ Answered(i, 400, [error |-> ErrInvalid])

\* C4: a request whose method is not POST is answered 405 "Method not
\* allowed"; its body is not read and no outbound call is made.
C4_MethodNotAllowed ==
    \A i \in Ids :
        (Started(i) /\ ~IsPost(i)) =>
            /\ Answered(i, 405, [error |-> ErrMethod])
            /\ ~inv[i].bodyRead
            /\ NoCall(i)

\* A GET carrying a valid email, with the service configured, was answered 405.
C4_Witness ==
    \E i \in Ids :
        /\ inv[i].req.method = "GET"
        /\ HasStringEmail(i) /\ MatchesShape(EmailStr(i))
        /\ Configured
        /\ Answered(i, 405, [error |-> ErrMethod])

\* C5: a POST with a valid-shaped email, when one of the three configuration
\* values is absent or empty, is answered 500 "Newsletter service is not
\* configured" without an outbound call; and that response is only ever
\* given to a POST whose email is a string of the valid shape.
C5_NotConfigured ==
    \A i \in Ids :
        /\ (Started(i) /\ IsPost(i) /\ HasStringEmail(i)
              /\ MatchesShape(EmailStr(i)) /\ ~Configured)
             => Answered(i, 500, [error |-> ErrConfig]) /\ NoCall(i)
        /\ (\E k \in 1..Len(inv[i].sent) : inv[i].sent[k].body = [error |-> ErrConfig])
             => /\ IsPost(i) /\ HasStringEmail(i) /\ MatchesShape(EmailStr(i))
                /\ ~Configured

\* Only the server tag is empty, and a valid POST was answered 500.
C5_Witness ==
    \E i \in Ids :
        /\ env.MAILCHIMP_SERVER = "" /\ Set(env.MAILCHIMP_API_KEY)
        /\ Set(env.MAILCHIMP_AUDIENCE_ID)
        /\ IsPost(i) /\ HasStringEmail(i) /\ MatchesShape(EmailStr(i))
        /\ Answered(i, 500, [error |-> ErrConfig])

\* C6 as stated: when the fetch resolved with a response whose ok flag is
\* true, whatever the reply's payload, the invocation is answered 200
\* "Thanks for subscribing!".
C6_AnyPayload ==
    \A i \in Ids :
        (Done(i) /\ inv[i].fetched.kind = "response" /\ inv[i].fetched.ok)
            => Answered(i, 200, [message |-> MsgThanks])

\* C6 amended: the same for every reply whose payload parses as JSON (null
\* and payloads that carry an error title included).
C6_JsonPayload ==
    \A i \in Ids :
        (Done(i) /\ inv[i].fetched.kind = "response" /\ inv[i].fetched.ok
           /\ inv[i].fetched.raw.json)
            => Answered(i, 200, [message |-> MsgThanks])

\* A reply with ok true and the payload {title: "Member Exists"} was answered 200.
C6_Witness ==
    \E i \in Ids :
        /\ inv[i].fetched.kind = "response" /\ inv[i].fetched.ok
        /\ inv[i].fetched.raw.json /\ inv[i].fetched.raw.title = "Member Exists"
        /\ Answered(i, 200, [message |-> MsgThanks])

\* The fetch of i resolved without success and with a JSON object as payload.
ErrorPayload(i) ==
    /\ inv[i].fetched.kind = "response" /\ ~inv[i].fetched.ok
    /\ inv[i].fetched.raw.json /\ inv[i].fetched.raw.kind = "object"

\* The response to an error payload, where a field whose value is in absent
\* counts as not present.
MappedByTitle(i, absent) ==
    LET title == inv[i].fetched.raw.title
        detail == inv[i].fetched.raw.detail
    IN  IF title = "Member Exists" THEN Answered(i, 400, [error |-> ErrExists])
        ELSE IF title = "Invalid Resource" THEN Answered(i, 400, [error |-> ErrInvalid])
        ELSE IF detail \notin absent THEN Answered(i, 500, [error |-> detail])
        ELSE IF title \notin absent THEN Answered(i, 500, [error |-> title])
        ELSE Answered(i, 500, [error |-> ErrGeneric])

\* C7 as stated: an error payload is answered by its title, "Member Exists"
\* and "Invalid Resource" giving their 400 whatever the detail, and any other
\* payload 500 with its detail if present, else its title if present, else
\* the generic message.
C7_IfPresent == \A i \in Ids : (Done(i) /\ ErrorPayload(i)) => MappedByTitle(i, {Undefined})

\* C7 amended: the same, where a detail or title that is the empty string
\* counts as not present.
C7_IfNonEmpty == \A i \in Ids : (Done(i) /\ ErrorPayload(i)) => MappedByTitle(i, {Undefined, ""})

\* A "Member Exists" payload that also has a detail was answered 400.
C7_Witness ==
    \E i \in Ids :
        /\ ErrorPayload(i)
        /\ inv[i].fetched.raw.title = "Member Exists"
        /\ inv[i].fetched.raw.detail = "X"
        /\ Answered(i, 400, [error |-> ErrExists])

\* The outbound call of i was rejected, or its reply is not JSON.
CallFailed(i) ==
    \/ inv[i].fetched.kind = "rejected"
    \/ inv[i].fetched.kind = "response" /\ ~inv[i].fetched.raw.json

\* C8: when the outbound call is rejected or its reply cannot be parsed, the
\* invocation is answered 500 with the generic error, and the body has a
\* debug field exactly when NODE_ENV is "development"; outside development
\* mode no response of any invocation has a debug field.
C8_DebugOnlyInDevelopment ==
    \A i \in Ids :
        /\ (Done(i) /\ CallFailed(i)) =>
             /\ Len(inv[i].sent) = 1 /\ inv[i].thrown = Undefined
             /\ inv[i].sent[1].status = 500
             /\ inv[i].sent[1].body.error = ErrGeneric
             /\ ("debug" \in DOMAIN inv[i].sent[1].body) <=> (env.NODE_ENV = "development")
        /\ env.NODE_ENV # "development" =>
             \A k \in 1..Len(inv[i].sent) : "debug" \notin DOMAIN inv[i].sent[k].body

\* In production mode a rejected call was answered 500 without a debug field.
C8_Witness ==
    \E i \in Ids :
        /\ env.NODE_ENV = "production"
        /\ inv[i].fetched.kind = "rejected"
        /\ Answered(i, 500, [error |-> ErrGeneric])

\* Invocation i made a call for the address e.
CalledFor(i, e) == inv[i].calls # <<>> /\ inv[i].calls[1].body.email_address = e

Occurrences(seq, e) == Cardinality({k \in 1..Len(seq) : seq[k] = e})

\* C9: of two successive invocations with the same valid email, the first for
\* that address, against the stub provider: the first is answered 200, the
\* second 400 "You are already subscribed!", each made exactly one outbound
\* call, and the address is on the provider's list once.
C9_TwiceTheSameEmail ==
    \A i \in Ids, j \in Ids :
        ( /\ i < j /\ Done(i) /\ Done(j)
          /\ inv[i].req = inv[j].req
          /\ IsPost(i) /\ HasStringEmail(i) /\ MatchesShape(EmailStr(i))
          /\ Configured
          /\ \A k \in Ids : k < i => ~CalledFor(k, EmailStr(i)) )
        => /\ Answered(i, 200, [message |-> MsgThanks])
           /\ Answered(j, 400, [error |-> ErrExists])
           /\ Len(inv[i].calls) = 1 /\ Len(inv[j].calls) = 1
           /\ Occurrences(members, EmailStr(i)) = 1

\* Invocations 1 and 2 submitted the same valid email and both have ended.
C9_Witness ==
    /\ Done(1) /\ Done(2) /\ inv[1].req = inv[2].req
    /\ IsPost(1) /\ HasStringEmail(1) /\ MatchesShape(EmailStr(1))
    /\ Answered(2, 400, [error |-> ErrExists])

\* The request of i passes every check before the outbound call.
ShouldCall(i) ==
    IsPost(i) /\ HasStringEmail(i) /\ MatchesShape(EmailStr(i)) /\ Configured

\* C10: an invocation makes one outbound call when the method is POST, the
\* email a valid-shaped string and the three configuration values present,
\* and none otherwise; the call is a POST to the URL built from the server
\* tag and the audience id, with the API key in its Basic authorization and
\* the body {email_address: the request's email, status: "subscribed"}; and
\* two invocations with the same request make the same call, and with the
\* same provider reply as well, end with the same response.
C10_OneCallPerInvocation ==
    \A i \in Ids :
        /\ Started(i) => Len(inv[i].calls) = (IF ShouldCall(i) THEN 1 ELSE 0)
        /\ inv[i].calls # <<>> =>
             /\ inv[i].calls[1].method = "POST"
             /\ inv[i].calls[1].url =
                  <<"https://", env.MAILCHIMP_SERVER, ".api.mailchimp.com/3.0/lists/",
                    env.MAILCHIMP_AUDIENCE_ID, "/members">>
             /\ inv[i].calls[1].authorization =
                  <<"Basic ", <<"base64", <<"anystring:", env.MAILCHIMP_API_KEY>>>>>>
             /\ inv[i].calls[1].body =
                  [email_address |-> EmailStr(i), status |-> "subscribed"]
        /\ \A j \in Ids :
             (Started(i) /\ Started(j) /\ inv[i].req = inv[j].req) =>
                /\ inv[i].calls = inv[j].calls
                /\ (Done(i) /\ Done(j) /\ inv[i].fetched = inv[j].fetched) =>
                     inv[i].sent = inv[j].sent /\ inv[i].thrown = inv[j].thrown

\* Two invocations are suspended at their outbound calls at the same time,
\* for different addresses.
C10_Witness ==
    \E i \in Ids, j \in Ids :
        /\ inv[i].pc = "awaitFetch" /\ inv[j].pc = "awaitJson"
        /\ Len(inv[i].calls) = 1 /\ Len(inv[j].calls) = 1
        /\ inv[i].calls[1].body.email_address # inv[j].calls[1].body.email_address

====
